---- MODULE Spec2Model ----
(***************************************************************************)
(* The time-based BackgroundTimer service of pomobop (the endTime-based    *)
(* background script, src/unnamed/part_000 lines 160-469).                 *)
(*                                                                         *)
(* Every handler of the service is an async function.  It runs             *)
(* synchronously up to its next `await` of a chrome API promise and is     *)
(* resumed later; other handlers (messages, alarm callbacks) may run in    *)
(* between.  One action below is one such synchronous segment.  The        *)
(* effect of a chrome API call (alarms.clear, alarms.create, storage.set,  *)
(* storage.get) takes place when the call is issued; the continuation is   *)
(* a later action.  A handler in flight is an entry of `tasks`.            *)
(***************************************************************************)
EXTENDS Integers, Sequences, FiniteSets, TLC

VARIABLES
    now,        \* Date.now(), in milliseconds
    state,      \* BackgroundTimer.state (TimerState)
    store,      \* chrome.storage.local 'pomodoroState': <<>> or <<record>>
    alarm,      \* the pending 'pomodoroTimer' alarm: its `when`, or Null
    tasks,      \* handlers suspended at an await (kept in a canonical order)
    lastSync,   \* the STATE_SYNC message the last step sent: <<>> or <<message>>
    lastEvent,  \* what the last step handled: <<>> or <<[type, arg]>>, a command
                \* message with its payload, an alarm with the outcome of the
                \* broadcast, or the outcome of chrome.tabs.create (arg 1: page
                \* opened / message received, 0: the call failed)
    countdown,  \* history of the countdown last started: "none" (never started,
                \* paused or reset), "open" (started), "notified" (the
                \* notification page was requested for it)
    display,    \* the viewer's displayState: the mirrored endTime, isRunning,
                \* sessionType, cyclePosition and timeLeft, and displayIntervalId
    viewer,     \* the popup page: "none" (not open), "ready", "unloaded"
    heard,      \* what the last step delivered to the viewer's listeners: <<>>
                \* or <<[type, arg]>>, a changed record or a STATE_SYNC message
    sent,       \* the messages the viewer sent in the last step, each with
                \* whether it was delivered
    rendered,   \* the seconds last written to the timer display, or Null
    popup       \* state of the interval-based PomodoroTimer of popup.ts:
                \* timeLeft, isRunning, intervalId

serviceVars == <<state, store, alarm, tasks, lastSync, lastEvent, countdown>>

viewerVars == <<display, viewer, heard, sent, rendered, popup>>

vars == <<now, serviceVars, viewerVars>>

----------------------------------------------------------------------------
(* Bounds of the model *)

\* The clock is sampled every second and a half, for MaxQuanta samples after
\* the construction and for as many after a long gap.
MaxQuanta == 1
\* SET_TIME payloads (seconds) are drawn from 0..MaxPayload.
MaxPayload == 1
\* At most MaxInFlight handlers are suspended at an await at a time.
MaxInFlight == 2

----------------------------------------------------------------------------
(* Program constants *)

\* null / undefined of a `number | null` field
Null == -1
\* milliseconds per second: `timeLeft * 1000`, `/ 1000`
MsPerSec == 1000
\* the instant of construction (the tests' Date.now())
T0 == 1000000

Falsy(x) == x = Null \/ x = 0

\* JavaScript `a || b` on numbers
OrElse(a, b) == IF Falsy(a) THEN b ELSE a

Max(a, b) == IF a >= b THEN a ELSE b

\* Math.ceil(a / b) for b > 0
CeilDiv(a, b) == -((-a) \div b)

----------------------------------------------------------------------------
(* Session cycle policy *)

SessionTypes == {"work", "shortBreak", "longBreak"}

getSessionTypeFromPosition(position) ==
    IF position % 2 = 1 THEN "work"
    ELSE IF position = 8 THEN "longBreak" ELSE "shortBreak"

getSessionDuration(sessionType) ==
    CASE sessionType = "work" -> 25 * 60
      [] sessionType = "shortBreak" -> 5 * 60
      [] sessionType = "longBreak" -> 15 * 60

\* the next cycle position without the wrap to 1
NextPositionNoWrap(position) == position + 1

\* moveToNextSession: the next cycle position (1 follows 8)
NextPosition(position) == (position % 8) + 1

moveToNextSessionStay(s) ==
    [s EXCEPT !.sessionType = getSessionTypeFromPosition(s.cyclePosition)]

moveToNextSession(s) ==
    [s EXCEPT !.cyclePosition = NextPosition(s.cyclePosition),
              !.sessionType = getSessionTypeFromPosition(NextPosition(s.cyclePosition))]

----------------------------------------------------------------------------
(* Time *)

\* the sampling period of the clock: a second and a half
Quantum == MsPerSec + (MsPerSec \div 2)

\* The gap after which the clock is sampled again: one work session.
LongGap == getSessionDuration("work") * MsPerSec

Instants ==
    { T0 + g + (q * Quantum) : g \in {0, LongGap}, q \in 0..MaxQuanta }

\* Remaining without the clamp at zero
RemainingUnclamped(endTime, t) == CeilDiv(endTime - t, MsPerSec)

\* Remaining with Math.floor in place of Math.ceil
RemainingFloor(endTime, t) == Max(0, (endTime - t) \div MsPerSec)

\* Math.max(0, Math.ceil((endTime - t) / 1000))
Remaining(endTime, t) == Max(0, CeilDiv(endTime - t, MsPerSec))

\* calculateCurrentTimeLeft with Math.floor in place of Math.ceil
calculateCurrentTimeLeftFloor(s, t) ==
    IF Falsy(s.endTime) THEN getSessionDuration(s.sessionType)
    ELSE IF ~Falsy(s.pausedAt) THEN Max(0, (s.endTime - s.pausedAt) \div MsPerSec)
    ELSE Max(0, (s.endTime - t) \div MsPerSec)

calculateCurrentTimeLeft(s, t) ==
    IF Falsy(s.endTime) THEN getSessionDuration(s.sessionType)
    ELSE IF ~Falsy(s.pausedAt) THEN Remaining(s.endTime, s.pausedAt)
    ELSE Remaining(s.endTime, t)

----------------------------------------------------------------------------
(* The state and its persisted projection *)

DefaultState(t) ==
    [ timeLeft |-> 25 * 60,
      isRunning |-> FALSE,
      startTime |-> Null,
      endTime |-> Null,
      pausedAt |-> Null,
      pausedDuration |-> 0,
      sessionType |-> "work",
      cyclePosition |-> 1 ]

\* stateToSave of saveAndBroadcastState
StateToSave(s) ==
    [ timeLeft |-> s.timeLeft,
      isRunning |-> s.isRunning,
      sessionType |-> s.sessionType,
      cyclePosition |-> s.cyclePosition,
      startTime |-> s.startTime,
      endTime |-> s.endTime,
      pausedAt |-> s.pausedAt,
      pausedDuration |-> OrElse(s.pausedDuration, 0) ]

\* restoreState losing the saved endTime
RestoredStateNoEndTime(saved, t) ==
    [ timeLeft |-> OrElse(saved.timeLeft, 25 * 60),
      isRunning |-> saved.isRunning,
      startTime |-> OrElse(saved.startTime, Null),
      endTime |-> Null,
      pausedAt |-> OrElse(saved.pausedAt, Null),
      pausedDuration |-> OrElse(saved.pausedDuration, 0),
      sessionType |-> saved.sessionType,
      cyclePosition |-> OrElse(saved.cyclePosition, 1) ]

\* the state restoreState builds from a saved record at instant t
RestoredState(saved, t) ==
    [ timeLeft |-> OrElse(saved.timeLeft, 25 * 60),
      isRunning |-> saved.isRunning,
      startTime |-> OrElse(saved.startTime, Null),
      endTime |-> OrElse(saved.endTime, Null),
      pausedAt |-> OrElse(saved.pausedAt, Null),
      pausedDuration |-> OrElse(saved.pausedDuration, 0),
      sessionType |-> saved.sessionType,
      cyclePosition |-> OrElse(saved.cyclePosition, 1) ]

\* restoreState recovering every record that holds a deadline
NeedsRecoveryAnyDeadline(r) == ~Falsy(r.endTime)

\* restoreState: if (this.state.isRunning && this.state.endTime)
NeedsRecovery(r) == r.isRunning /\ ~Falsy(r.endTime)

\* restoreState re-arming with a freshly computed deadline
RearmWhenFresh(r, t) == t + (r.timeLeft * MsPerSec)

\* the `when` restoreState re-arms the alarm with: { when: this.state.endTime }
RearmWhen(r, t) == r.endTime

\* startTimer leaving the pausedAt of an earlier pause in place
StartedStateKeepPausedAt(s, t) ==
    [s EXCEPT !.isRunning = TRUE,
              !.startTime = t,
              !.endTime = t + (s.timeLeft * MsPerSec)]

\* the state startTimer writes at instant t
StartedState(s, t) ==
    [s EXCEPT !.isRunning = TRUE,
              !.startTime = t,
              !.endTime = t + (s.timeLeft * MsPerSec),
              !.pausedAt = Null]

\* the state pauseTimer writes at instant t
PausedState(s, t) ==
    [s EXCEPT !.isRunning = FALSE,
              !.pausedAt = t,
              !.timeLeft = calculateCurrentTimeLeft(s, t)]

\* resetTimer leaving the session cycle where it is
ResetStateKeepCycle(s, t) ==
    [s EXCEPT !.isRunning = FALSE,
              !.timeLeft = 25 * 60,
              !.startTime = Null,
              !.endTime = Null,
              !.pausedAt = Null,
              !.pausedDuration = 0]

\* the state resetTimer writes at instant t
ResetState(s, t) ==
    [s EXCEPT !.isRunning = FALSE,
              !.timeLeft = 25 * 60,
              !.startTime = Null,
              !.endTime = Null,
              !.pausedAt = Null,
              !.pausedDuration = 0,
              !.sessionType = "work",
              !.cyclePosition = 1]

\* handleTimerComplete taking the duration of the session that just ended
CompletedStateOldDuration(s, t) ==
    LET m == moveToNextSession(s) IN
    [m EXCEPT !.timeLeft = getSessionDuration(s.sessionType),
              !.isRunning = FALSE,
              !.startTime = Null,
              !.endTime = Null,
              !.pausedAt = Null]

\* the state handleTimerComplete writes once the notification page call returned
CompletedState(s, t) ==
    LET m == moveToNextSession(s) IN
    [m EXCEPT !.timeLeft = getSessionDuration(m.sessionType),
              !.isRunning = FALSE,
              !.startTime = Null,
              !.endTime = Null,
              !.pausedAt = Null]

\* handleTimerComplete with a failure of chrome.tabs.create not caught
AfterNotifierUncaught(s, t, opened) ==
    IF opened THEN CompletedState(s, t) ELSE s

\* handleTimerComplete from the outcome of chrome.tabs.create on: a failure
\* is caught and logged, the session transition follows in both cases
AfterNotifier(s, t, opened) == CompletedState(s, t)

\* the message handleSyncAlarm sends at instant t
SyncMessage(s, t) ==
    [ endTime |-> s.endTime,
      sessionType |-> s.sessionType,
      cyclePosition |-> s.cyclePosition,
      isRunning |-> s.isRunning,
      timeLeft |-> calculateCurrentTimeLeft(s, t) ]

----------------------------------------------------------------------------
(* Handlers in flight *)

Task(kind, pc, saved) == [kind |-> kind, pc |-> pc, saved |-> saved]

Without(seq, i) == SubSeq(seq, 1, i - 1) \o SubSeq(seq, i + 1, Len(seq))

\* Suspended handlers resume in any order, so the order of `tasks` carries no
\* information: it is kept sorted by TaskRank.
PcRank(pc) ==
    CASE pc = "restore" -> 0
      [] pc = "create" -> 1
      [] pc = "save" -> 2
      [] pc = "transition" -> 3

KindRank(kind) ==
    CASE kind = "init" -> 0
      [] kind = "start" -> 1
      [] kind = "pause" -> 2
      [] kind = "reset" -> 3
      [] kind = "complete" -> 4

TaskRank(t) == (PcRank(t.pc) * 5) + KindRank(t.kind)

With(seq, t) ==
    LET k == Cardinality({ j \in 1..Len(seq) : TaskRank(seq[j]) <= TaskRank(t) })
    IN SubSeq(seq, 1, k) \o <<t>> \o SubSeq(seq, k + 1, Len(seq))

\* task i moves on to program point pc
Moved(seq, i, pc) == With(Without(seq, i), [seq[i] EXCEPT !.pc = pc])

\* a new handler may be delivered while fewer than k are suspended
Room(k) == Len(tasks) < k

Quiescent == tasks = <<>>

\* a message or an alarm delivered to a listener of init()
Event(type, arg) == <<[type |-> type, arg |-> arg]>>

----------------------------------------------------------------------------
(* The viewer: PomodoroTimer of the popup page and its displayState *)

\* the drift beyond which the viewer adopts an incoming endTime, in ms
DriftThreshold == 2000

Abs(x) == IF x < 0 THEN -x ELSE x

\* displayState of a new PomodoroTimer
DefaultDisplay ==
    [ endTime |-> Null,
      isRunning |-> FALSE,
      sessionType |-> "work",
      cyclePosition |-> 1,
      timeLeft |-> 25 * 60,
      displayIntervalId |-> Null ]

\* the drift rule adopting every incoming endTime
AdoptsEndTimeAlways(local, incoming) == TRUE

\* the drift rule: no local endTime yet, or more than the threshold apart
AdoptsEndTime(local, incoming) ==
    local = Null \/ Abs(incoming - local) > DriftThreshold

\* the local endTime kept when the incoming state is not running
ReconciledEndTimeKept(d, p) ==
    IF p.isRunning /\ p.endTime # Null /\ AdoptsEndTime(d.endTime, p.endTime)
    THEN p.endTime
    ELSE d.endTime

\* the local endTime after an incoming state p
ReconciledEndTime(d, p) ==
    IF p.isRunning /\ p.endTime # Null
    THEN IF AdoptsEndTime(d.endTime, p.endTime) THEN p.endTime ELSE d.endTime
    ELSE IF ~p.isRunning THEN Null ELSE d.endTime

\* the mirrored fields after an incoming state p
Mirrored(d, p) ==
    [d EXCEPT !.isRunning = p.isRunning,
              !.sessionType = p.sessionType,
              !.cyclePosition = p.cyclePosition,
              !.timeLeft = p.timeLeft,
              !.endTime = ReconciledEndTime(d, p)]

startDisplayLoop(d) == [d EXCEPT !.displayIntervalId = 1]

stopDisplayLoop(d) == [d EXCEPT !.displayIntervalId = Null]

\* the loop decided by the run flag the viewer held before the update
LoopWantedFromLocal(d, p) == d.isRunning

\* whether syncDisplayState leaves the refresh loop running
LoopWanted(d, p) == p.isRunning

syncDisplayState(d, p) ==
    IF LoopWanted(d, p)
    THEN startDisplayLoop(Mirrored(d, p))
    ELSE stopDisplayLoop(Mirrored(d, p))

\* the STATE_SYNC listener: as syncDisplayState, the loop left alone
handleSyncMessage(d, m) == Mirrored(d, m)

\* calculateDisplayTimeLeft with Math.floor in place of Math.ceil
calculateDisplayTimeLeftFloor(d, t) ==
    IF d.isRunning /\ d.endTime # Null
    THEN RemainingFloor(d.endTime, t)
    ELSE d.timeLeft

calculateDisplayTimeLeft(d, t) ==
    IF d.isRunning /\ d.endTime # Null
    THEN Remaining(d.endTime, t)
    ELSE d.timeLeft

\* a tick of the refresh loop counting the mirrored timeLeft down
AfterLoopTickCountsDown(d, t) == [d EXCEPT !.timeLeft = Max(0, @ - 1)]

\* displayState after a tick of the refresh loop
AfterLoopTick(d, t) == d

\* a command sender setting the run flag before the service answers
AfterSendOptimistic(d, type, delivered) ==
    [d EXCEPT !.isRunning = (type = "START_TIMER")]

\* displayState after sendCommand, delivered or not
AfterSend(d, type, delivered) == d

\* a message the viewer sent and whether the service received it
Sent(type, arg, delivered) ==
    [type |-> type, arg |-> arg, delivered |-> delivered]

\* state of a new interval-based PomodoroTimer
DefaultPopup ==
    [ timeLeft |-> 25 * 60, isRunning |-> FALSE, intervalId |-> Null ]

\* no popup page is open
NoViewer ==
    /\ popup = DefaultPopup
    /\ display = DefaultDisplay
    /\ viewer = "none"
    /\ heard = <<>>
    /\ sent = <<>>
    /\ rendered = Null

----------------------------------------------------------------------------
(* Initial state: `new BackgroundTimer()` on an empty store.  The          *)
(* constructor runs init() up to restoreState's storage.get.               *)

Init ==
    /\ now = T0
    /\ state = DefaultState(T0)
    /\ store = <<>>
    /\ alarm = Null
    /\ tasks = <<Task("init", "restore", <<>>)>>
    /\ lastSync = <<>>
    /\ lastEvent = <<>>
    /\ countdown = "none"
    /\ NoViewer

----------------------------------------------------------------------------
(* Actions *)

\* the wall clock advances to a later instant
Tick ==
    /\ heard' = <<>>
    /\ sent' = <<>>
    /\ UNCHANGED <<display, viewer, rendered, popup>>
    /\ \E t \in Instants : t > now /\ now' = t
    /\ lastSync' = <<>>
    /\ countdown' = countdown
    /\ lastEvent' = <<>>
    /\ UNCHANGED <<state, store, alarm, tasks>>

\* the host destroys the service worker and runs the script again
Restart ==
    /\ UNCHANGED viewerVars
    /\ state' = DefaultState(now)
    /\ tasks' = <<Task("init", "restore", store)>>
    /\ lastSync' = <<>>
    /\ countdown' = countdown
    /\ lastEvent' = <<>>
    /\ UNCHANGED <<now, store, alarm>>

\* restoreState, from the answer of storage.get on
Restore(i) ==
    /\ UNCHANGED viewerVars
    /\ i \in 1..Len(tasks)
    /\ tasks[i].pc = "restore"
    /\ IF tasks[i].saved = <<>>
       THEN /\ tasks' = Without(tasks, i)
            /\ UNCHANGED <<state, alarm, countdown>>
       ELSE LET r == RestoredState(tasks[i].saved[1], now) IN
            IF NeedsRecovery(r)
            THEN IF Remaining(r.endTime, now) > 0
                 THEN /\ state' = [r EXCEPT !.timeLeft = Remaining(r.endTime, now)]
                      /\ alarm' = RearmWhen(r, now)
                      /\ tasks' = Without(tasks, i)
                      /\ UNCHANGED countdown
                 ELSE \* handleTimerComplete: the notification page is opened
                      /\ state' = r
                      /\ tasks' = Moved(tasks, i, "transition")
                      /\ countdown' = "notified"
                      /\ UNCHANGED alarm
            ELSE /\ state' = r
                 /\ tasks' = Without(tasks, i)
                 /\ UNCHANGED <<alarm, countdown>>
    /\ lastSync' = <<>>
    /\ lastEvent' = <<>>
    /\ UNCHANGED <<now, store>>

\* START_TIMER: startTimer up to `await chrome.alarms.clear`
StartTimer(k) ==
    /\ UNCHANGED viewerVars
    /\ Room(k)
    /\ IF ~state.isRunning
       THEN /\ state' = StartedState(state, now)
            /\ alarm' = Null
            /\ tasks' = With(tasks, Task("start", "create", <<>>))
       ELSE UNCHANGED <<state, alarm, tasks>>
    /\ lastSync' = <<>>
    /\ countdown' = (IF ~state.isRunning THEN "open" ELSE countdown)
    /\ lastEvent' = Event("START_TIMER", Null)
    /\ UNCHANGED <<now, store>>

\* startTimer: chrome.alarms.create(alarmName, { when: this.state.endTime })
\* With `when` null the call either rejects (the handler ends in the catch
\* of the message listener) or creates nothing.
StartCreate(i) ==
    /\ UNCHANGED viewerVars
    /\ i \in 1..Len(tasks)
    /\ tasks[i].pc = "create"
    /\ IF state.endTime = Null
       THEN /\ \E rejected \in BOOLEAN :
                 tasks' = IF rejected THEN Without(tasks, i)
                          ELSE Moved(tasks, i, "save")
            /\ UNCHANGED alarm
       ELSE /\ alarm' = state.endTime
            /\ tasks' = Moved(tasks, i, "save")
    /\ lastSync' = <<>>
    /\ countdown' = countdown
    /\ lastEvent' = <<>>
    /\ UNCHANGED <<now, state, store>>

\* PAUSE_TIMER: pauseTimer up to `await chrome.alarms.clear`
PauseTimer(k) ==
    /\ UNCHANGED viewerVars
    /\ Room(k)
    /\ IF state.isRunning
       THEN /\ state' = PausedState(state, now)
            /\ alarm' = Null
            /\ tasks' = With(tasks, Task("pause", "save", <<>>))
       ELSE UNCHANGED <<state, alarm, tasks>>
    /\ lastSync' = <<>>
    /\ countdown' = (IF state.isRunning THEN "none" ELSE countdown)
    /\ lastEvent' = Event("PAUSE_TIMER", Null)
    /\ UNCHANGED <<now, store>>

\* RESET_TIMER: resetTimer up to `await chrome.alarms.clear`
ResetTimer(k) ==
    /\ UNCHANGED viewerVars
    /\ Room(k)
    /\ state' = ResetState(state, now)
    /\ alarm' = Null
    /\ tasks' = With(tasks, Task("reset", "save", <<>>))
    /\ lastSync' = <<>>
    /\ countdown' = "none"
    /\ lastEvent' = Event("RESET_TIMER", Null)
    /\ UNCHANGED <<now, store>>

\* saveAndBroadcastState, as the continuation of start, pause and reset
Save(i) ==
    /\ UNCHANGED viewerVars
    /\ i \in 1..Len(tasks)
    /\ tasks[i].pc = "save"
    /\ store' = <<StateToSave(state)>>
    /\ tasks' = Without(tasks, i)
    /\ lastSync' = <<>>
    /\ countdown' = countdown
    /\ lastEvent' = <<>>
    /\ UNCHANGED <<now, state, alarm>>

\* SET_TIME without the guard of setTime
SetTimeAppliesUnguarded(s, seconds) == ~Falsy(seconds)

\* SET_TIME is applied: `if (message.timeLeft)` and `if (!this.state.isRunning)`
SetTimeApplies(s, seconds) == ~Falsy(seconds) /\ ~s.isRunning

\* SET_TIME { timeLeft: seconds }
SetTime(k, seconds) ==
    /\ UNCHANGED viewerVars
    /\ Room(k)
    /\ IF SetTimeApplies(state, seconds)
       THEN /\ state' = [state EXCEPT !.timeLeft = seconds]
            /\ store' = <<StateToSave(state')>>
       ELSE UNCHANGED <<state, store>>
    /\ lastSync' = <<>>
    /\ countdown' = countdown
    /\ lastEvent' = Event("SET_TIME", seconds)
    /\ UNCHANGED <<now, alarm, tasks>>

\* GET_STATE: broadcastState
GetState(k) ==
    /\ UNCHANGED viewerVars
    /\ Room(k)
    /\ store' = <<StateToSave(state)>>
    /\ lastSync' = <<>>
    /\ countdown' = countdown
    /\ lastEvent' = Event("GET_STATE", Null)
    /\ UNCHANGED <<now, state, alarm, tasks>>

\* the message types the viewer sends that handleCommand has no case for
UnhandledTypes == {"SET_TIME_AND_RESET", "JUMP_TO_POSITION"}

\* a message with no case in handleCommand: the switch falls through
OtherCommand(k) ==
    /\ UNCHANGED viewerVars
    /\ Room(k)
    /\ \E type \in UnhandledTypes, arg \in 1..MaxPayload :
         lastEvent' = Event(type, arg)
    /\ lastSync' = <<>>
    /\ countdown' = countdown
    /\ UNCHANGED <<now, state, store, alarm, tasks>>

\* the 'pomodoroTimer' alarm fires, at or after `when`: handleTimerComplete
\* up to `await chrome.tabs.create`
AlarmFire(k) ==
    /\ UNCHANGED viewerVars
    /\ Room(k)
    /\ alarm # Null
    /\ now >= alarm
    /\ alarm' = Null
    /\ tasks' = With(tasks, Task("complete", "transition", <<>>))
    /\ lastSync' = <<>>
    /\ countdown' = "notified"
    /\ lastEvent' = Event("pomodoroTimer", Null)
    /\ UNCHANGED <<now, state, store>>

\* handleTimerComplete after the notification page call: session transition
CompleteTransition(i) ==
    /\ UNCHANGED viewerVars
    /\ i \in 1..Len(tasks)
    /\ tasks[i].pc = "transition"
    /\ \E opened \in BOOLEAN :
         /\ state' = AfterNotifier(state, now, opened)
         /\ lastEvent' = Event("notification", IF opened THEN 1 ELSE 0)
    /\ store' = <<StateToSave(state')>>
    /\ tasks' = Without(tasks, i)
    /\ lastSync' = <<>>
    /\ countdown' = countdown
    /\ UNCHANGED <<now, alarm>>

\* handleSyncAlarm writing the time it computed back into the state
AfterSyncStoresTimeLeft(s, t) ==
    [s EXCEPT !.timeLeft = calculateCurrentTimeLeft(s, t)]

\* the state after handleSyncAlarm: it assigns no field
AfterSync(s, t) == s

\* the 'pomodoroSync' alarm fires: handleSyncAlarm.  sendMessage rejects when
\* no viewer listens; the rejection is caught and ignored.
SyncAlarm(k) ==
    /\ UNCHANGED viewerVars
    /\ Room(k)
    /\ lastSync' = <<SyncMessage(state, now)>>
    /\ countdown' = countdown
    /\ \E received \in BOOLEAN :
         lastEvent' = Event("pomodoroSync", IF received THEN 1 ELSE 0)
    /\ state' = AfterSync(state, now)
    /\ UNCHANGED <<now, store, alarm, tasks>>

Deliver(k) ==
    \/ StartTimer(k)
    \/ PauseTimer(k)
    \/ ResetTimer(k)
    \/ \E seconds \in 0..MaxPayload : SetTime(k, seconds)
    \/ GetState(k)
    \/ OtherCommand(k)
    \/ AlarmFire(k)
    \/ SyncAlarm(k)

Resume ==
    \E i \in 1..MaxInFlight :
        \/ Restore(i)
        \/ StartCreate(i)
        \/ Save(i)
        \/ CompleteTransition(i)

Next ==
    \/ Tick
    \/ Restart
    \/ Deliver(MaxInFlight)
    \/ Resume

Spec == Init /\ [][Next]_vars

\* handlers delivered one at a time: none starts while another is suspended
NextSerial ==
    \/ Tick
    \/ Restart
    \/ Deliver(1)
    \/ Resume

SpecSerial == Init /\ [][NextSerial]_vars

\* handleTimerComplete called directly (it is public and unguarded), as the
\* tests of the session cycle do: up to `await chrome.tabs.create`
HandleTimerCompleteCall ==
    /\ UNCHANGED viewerVars
    /\ Room(1)
    /\ tasks' = With(tasks, Task("complete", "transition", <<>>))
    /\ lastSync' = <<>>
    /\ countdown' = "notified"
    /\ lastEvent' = Event("handleTimerComplete", Null)
    /\ UNCHANGED <<now, state, store, alarm>>

NextCycle ==
    \/ NextSerial
    \/ HandleTimerCompleteCall

SpecCycle == Init /\ [][NextCycle]_vars

----------------------------------------------------------------------------
(* The viewer's steps.  The service is seen through what it publishes: the *)
(* record it persisted and the STATE_SYNC message of a state it holds.     *)

\* the time the viewer's tests set and display: five minutes, in seconds
FiveMinutes == 5 * 60

\* the drift the viewer's test corrects, in ms
DisplayDrift == 5000

\* how far apart the deadlines of the published countdowns are, in ms
DriftOffsets == {0, Quantum, DriftThreshold, DisplayDrift}

\* the times a stopped timer was set to
DisplayTimes == { FiveMinutes * k : k \in 1..(MaxPayload + 1) }

\* a stopped timer set to timeLeft at a cycle position
SetState(timeLeft, position) ==
    [DefaultState(T0) EXCEPT !.timeLeft = timeLeft,
                             !.cyclePosition = position,
                             !.sessionType = getSessionTypeFromPosition(position)]

StoppedStates == { SetState(tl, pos) : tl \in DisplayTimes, pos \in 1..2 }

RunningStates ==
    { StartedState(SetState(FiveMinutes, 1), T0 + o) : o \in DriftOffsets }

PausedStates ==
    { PausedState(StartedState(SetState(FiveMinutes, 1), T0), T0 + Quantum) }

\* a running state published before its endTime is known
JustStarted ==
    [StartedState(SetState(FiveMinutes, 1), T0) EXCEPT !.endTime = Null]

\* the authoritative states the viewer is told of
AuthStates == StoppedStates \cup RunningStates \cup PausedStates \cup {JustStarted}

\* new PomodoroTimer(): the stored record applied, GET_STATE sent
OpenViewer ==
    /\ viewer \in {"none", "unloaded"}
    /\ viewer' = "ready"
    /\ display' = IF store = <<>> THEN DefaultDisplay
                  ELSE syncDisplayState(DefaultDisplay, store[1])
    /\ \E delivered \in BOOLEAN :
         sent' = <<Sent("GET_STATE", Null, delivered)>>
    /\ heard' = <<>>
    /\ rendered' = calculateDisplayTimeLeft(display', now)
    /\ UNCHANGED <<now, serviceVars, popup>>

\* the chrome.storage.onChanged listener, on the record the service wrote
StorageChanged(s) ==
    /\ viewer = "ready"
    /\ heard' = Event("storage.onChanged", StateToSave(s))
    /\ store' = <<StateToSave(s)>>
    /\ display' = syncDisplayState(display, StateToSave(s))
    /\ sent' = <<>>
    /\ rendered' = calculateDisplayTimeLeft(display', now)
    /\ UNCHANGED <<now, state, alarm, tasks, lastSync, lastEvent, countdown, viewer,
                   popup>>

\* the chrome.runtime.onMessage listener, on a STATE_SYNC of the service
SyncReceived(s) ==
    /\ viewer = "ready"
    /\ heard' = Event("STATE_SYNC", SyncMessage(s, now))
    /\ display' = handleSyncMessage(display, SyncMessage(s, now))
    /\ sent' = <<>>
    /\ rendered' = calculateDisplayTimeLeft(display', now)
    /\ UNCHANGED <<now, serviceVars, viewer, popup>>

\* a tick of the refresh loop
LoopTick ==
    /\ viewer = "ready"
    /\ display.displayIntervalId # Null
    /\ display' = AfterLoopTick(display, now)
    /\ rendered' = calculateDisplayTimeLeft(display', now)
    /\ heard' = <<>>
    /\ sent' = <<>>
    /\ UNCHANGED <<now, serviceVars, viewer, popup>>

\* the start and pause buttons and the progress dots: one command sent
SendCommand(type, arg) ==
    /\ viewer = "ready"
    /\ \E delivered \in BOOLEAN :
         /\ sent' = <<Sent(type, arg, delivered)>>
         /\ display' = AfterSend(display, type, delivered)
    /\ heard' = <<>>
    /\ UNCHANGED <<now, serviceVars, viewer, rendered, popup>>

\* a preset button: SET_TIME_AND_RESET, then START_TIMER
Preset(seconds) ==
    /\ viewer = "ready"
    /\ \E first \in BOOLEAN, second \in BOOLEAN :
         /\ sent' = << Sent("SET_TIME_AND_RESET", seconds, first),
                       Sent("START_TIMER", Null, second) >>
         /\ display' = AfterSend(AfterSend(display, "SET_TIME_AND_RESET", first),
                                 "START_TIMER", second)
    /\ heard' = <<>>
    /\ UNCHANGED <<now, serviceVars, viewer, rendered, popup>>

\* the beforeunload listener
Unload ==
    /\ viewer = "ready"
    /\ viewer' = "unloaded"
    /\ display' = stopDisplayLoop(display)
    /\ heard' = <<>>
    /\ sent' = <<>>
    /\ UNCHANGED <<now, serviceVars, rendered, popup>>

NextViewer ==
    \/ Tick
    \/ OpenViewer
    \/ \E s \in AuthStates : StorageChanged(s)
    \/ \E s \in AuthStates : SyncReceived(s)
    \/ LoopTick
    \/ SendCommand("START_TIMER", Null)
    \/ SendCommand("PAUSE_TIMER", Null)
    \/ \E position \in 1..MaxPayload : SendCommand("JUMP_TO_POSITION", position)
    \/ \E seconds \in 1..MaxPayload : Preset(seconds)
    \/ Unload

SpecViewer == Init /\ [][NextViewer]_vars

----------------------------------------------------------------------------
(* The interval-based viewer of popup.ts, which counts down by itself and  *)
(* persists its own state                                                  *)

\* the times of the preset buttons, in seconds
PopupPresets == {25 * 60, 15 * 60, 5 * 60, 1}

\* stateToSave of saveState at instant t
StoredState(p, t) ==
    [timeLeft |-> p.timeLeft, isRunning |-> p.isRunning, lastSaveTime |-> t]

\* calculateElapsedTime rounding the elapsed seconds up
calculateElapsedTimeCeil(lastSaveTime, t) == CeilDiv(t - lastSaveTime, MsPerSec)

\* calculateElapsedTime: whole seconds since lastSaveTime
calculateElapsedTime(lastSaveTime, t) == (t - lastSaveTime) \div MsPerSec

\* the state pause() and setTimeSeconds(DEFAULT_MINUTES * 60) of complete()
\* leave
PopupCompleted ==
    [timeLeft |-> 25 * 60, isRunning |-> FALSE, intervalId |-> Null]

\* whether applyRestoredState resumes the saved countdown
ResumesCountdown(saved) == saved.isRunning /\ ~Falsy(saved.lastSaveTime)

\* the state of a new PomodoroTimer after applyRestoredState(saved) at t
applyRestoredState(saved, t) ==
    IF ResumesCountdown(saved)
    THEN LET timeLeft ==
               Max(0, saved.timeLeft - calculateElapsedTime(saved.lastSaveTime, t))
         IN IF timeLeft > 0
            THEN [timeLeft |-> timeLeft, isRunning |-> TRUE, intervalId |-> 1]
            ELSE PopupCompleted
    ELSE [DefaultPopup EXCEPT !.timeLeft = saved.timeLeft]

\* new PomodoroTimer(): restoreState
PopupOpen ==
    /\ viewer \in {"none", "unloaded"}
    /\ viewer' = "ready"
    /\ IF store = <<>>
       THEN popup' = DefaultPopup /\ store' = store
       ELSE /\ popup' = applyRestoredState(store[1], now)
            /\ store' = IF ResumesCountdown(store[1])
                        THEN <<StoredState(popup', now)>>
                        ELSE store
    /\ UNCHANGED <<now, state, alarm, tasks, lastSync, lastEvent, countdown,
                   display, heard, sent, rendered>>

\* start(), from the start button
PopupStart ==
    /\ viewer = "ready"
    /\ IF ~popup.isRunning
       THEN /\ popup' = [popup EXCEPT !.isRunning = TRUE, !.intervalId = 1]
            /\ store' = <<StoredState(popup', now)>>
       ELSE UNCHANGED <<popup, store>>
    /\ UNCHANGED <<now, state, alarm, tasks, lastSync, lastEvent, countdown,
                   display, viewer, heard, sent, rendered>>

\* pause(), from the pause button
PopupPause ==
    /\ viewer = "ready"
    /\ IF popup.isRunning
       THEN /\ popup' = [popup EXCEPT !.isRunning = FALSE, !.intervalId = Null]
            /\ store' = <<StoredState(popup', now)>>
       ELSE UNCHANGED <<popup, store>>
    /\ UNCHANGED <<now, state, alarm, tasks, lastSync, lastEvent, countdown,
                   display, viewer, heard, sent, rendered>>

\* setTimeSeconds(seconds), from a preset button
PopupSetTimeSeconds(seconds) ==
    /\ viewer = "ready"
    /\ IF ~popup.isRunning
       THEN /\ popup' = [popup EXCEPT !.timeLeft = seconds]
            /\ store' = <<StoredState(popup', now)>>
       ELSE UNCHANGED <<popup, store>>
    /\ UNCHANGED <<now, state, alarm, tasks, lastSync, lastEvent, countdown,
                   display, viewer, heard, sent, rendered>>

\* the callback of createTimerInterval: one second counted down
PopupInterval ==
    /\ viewer = "ready"
    /\ popup.intervalId # Null
    /\ popup' = IF popup.timeLeft - 1 <= 0
                THEN PopupCompleted
                ELSE [popup EXCEPT !.timeLeft = @ - 1]
    /\ store' = <<StoredState(popup', now)>>
    /\ UNCHANGED <<now, state, alarm, tasks, lastSync, lastEvent, countdown,
                   display, viewer, heard, sent, rendered>>

\* the popup is closed: the page and its interval are gone
PopupClose ==
    /\ viewer = "ready"
    /\ viewer' = "unloaded"
    /\ popup' = DefaultPopup
    /\ UNCHANGED <<now, serviceVars, display, heard, sent, rendered>>

NextPopup ==
    \/ Tick
    \/ PopupOpen
    \/ PopupStart
    \/ PopupPause
    \/ \E seconds \in PopupPresets : PopupSetTimeSeconds(seconds)
    \/ PopupInterval
    \/ PopupClose

SpecPopup == Init /\ [][NextPopup]_vars

----------------------------------------------------------------------------
(* The storage-driven service of src/background.js, which ran beside the   *)
(* interval-based popup: the popup writes the record, the service marks    *)
(* the completion in it.  Its handlers in flight are kept in `tasks` with  *)
(* kind "legacy".                                                          *)

\* the delay of the reset in handleTimerComplete, in ms
ResetDelay == 3000

\* updatedState of handleTimerComplete: the stored record spread, its four
\* fields overwritten
LegacyUpdatedState(saved, t) ==
    [ timeLeft |-> 0,
      isRunning |-> FALSE,
      isCompleted |-> TRUE,
      lastSaveTime |-> t ]

\* resetState of handleTimerComplete
LegacyResetState(t) ==
    [ timeLeft |-> 25 * 60,
      isRunning |-> FALSE,
      isCompleted |-> FALSE,
      lastSaveTime |-> t ]

\* the reset timer handleTimerComplete leaves behind, due at instant t
LegacyTimeout(t) == [due |-> t]

LegacyInFlight == \E j \in 1..Len(tasks) : tasks[j].kind = "legacy"

\* handleTimerComplete, from the onAlarm listener or called directly, up to
\* `await chrome.storage.local.get`
LegacyHandleTimerComplete ==
    /\ ~LegacyInFlight
    /\ tasks' = Append(tasks, Task("legacy", "get", store))
    /\ lastEvent' = Event("handleTimerComplete", Null)
    /\ UNCHANGED <<now, state, store, alarm, lastSync, countdown, viewerVars>>

\* from the answer of storage.get on: the completed record is written if
\* there was a record, the notification page is opened at once if not
LegacyMarkCompleted(i) ==
    /\ i \in 1..Len(tasks)
    /\ tasks[i].kind = "legacy"
    /\ tasks[i].pc = "get"
    /\ IF tasks[i].saved # <<>>
       THEN /\ store' = <<LegacyUpdatedState(tasks[i].saved[1], now)>>
            /\ tasks' = [tasks EXCEPT ![i] = Task("legacy", "set", <<>>)]
            /\ lastEvent' = <<>>
       ELSE /\ store' = store
            /\ tasks' = [tasks EXCEPT ![i] = Task("legacy", "tab", <<>>)]
            /\ \E opened \in BOOLEAN :
                 lastEvent' = Event("notification", IF opened THEN 1 ELSE 0)
    /\ UNCHANGED <<now, state, alarm, lastSync, countdown, viewerVars>>

\* from the answer of storage.set on: chrome.tabs.create
LegacyNotify(i) ==
    /\ i \in 1..Len(tasks)
    /\ tasks[i].kind = "legacy"
    /\ tasks[i].pc = "set"
    /\ tasks' = [tasks EXCEPT ![i] = Task("legacy", "tab", <<>>)]
    /\ \E opened \in BOOLEAN :
         lastEvent' = Event("notification", IF opened THEN 1 ELSE 0)
    /\ UNCHANGED <<now, state, store, alarm, lastSync, countdown, viewerVars>>

\* from the answer of tabs.create on, a failure caught: setTimeout(..., 3000)
LegacySetTimeout(i) ==
    /\ i \in 1..Len(tasks)
    /\ tasks[i].kind = "legacy"
    /\ tasks[i].pc = "tab"
    /\ tasks' = [tasks EXCEPT
                   ![i] = Task("legacy", "timeout", <<LegacyTimeout(now + ResetDelay)>>)]
    /\ lastEvent' = <<>>
    /\ UNCHANGED <<now, state, store, alarm, lastSync, countdown, viewerVars>>

\* the callback of the timeout: the reset record is written
LegacyReset(i) ==
    /\ i \in 1..Len(tasks)
    /\ tasks[i].kind = "legacy"
    /\ tasks[i].pc = "timeout"
    /\ now >= tasks[i].saved[1].due
    /\ store' = <<LegacyResetState(now)>>
    /\ tasks' = Without(tasks, i)
    /\ lastEvent' = <<>>
    /\ UNCHANGED <<now, state, alarm, lastSync, countdown, viewerVars>>

\* a suspended handleTimerComplete goes on, or its timeout fires
LegacyResume ==
    \E i \in 1..MaxInFlight :
        \/ LegacyMarkCompleted(i)
        \/ LegacyNotify(i)
        \/ LegacySetTimeout(i)
        \/ LegacyReset(i)

\* The popup as the writer of the records the service finds: opened,
\* started, paused, preset and closed (its one-second countdown is the
\* matter of SpecPopup).
NextLegacy ==
    \/ Tick
    \/ PopupOpen
    \/ PopupStart
    \/ PopupPause
    \/ \E seconds \in PopupPresets : PopupSetTimeSeconds(seconds)
    \/ PopupClose
    \/ LegacyHandleTimerComplete
    \/ LegacyResume

SpecLegacy == Init /\ [][NextLegacy]_vars

----------------------------------------------------------------------------
(* Claims *)

\* a START_TIMER that finds the timer stopped, a PAUSE_TIMER that finds it running
StartActs == StartTimer(MaxInFlight) /\ ~state.isRunning
PauseActs == PauseTimer(MaxInFlight) /\ state.isRunning

\* C1 - Pause/resume exactness.  A pause at instant t0+e of a countdown that
\* was started at t0 with timeLeft T leaves the timer stopped with
\* timeLeft = max(0, T - floor(e/1000)); a start at any instant t1 sets
\* endTime = t1 + timeLeft*1000, whatever time was spent paused.
C1_PauseResumeExact ==
    [][ /\ (PauseActs /\ state.endTime = state.startTime + (state.timeLeft * MsPerSec))
            => /\ ~state'.isRunning
               /\ state.timeLeft >= 0
               /\ state'.timeLeft =
                      Max(0, state.timeLeft - ((now - state.startTime) \div MsPerSec))
        /\ StartActs
            => /\ state'.isRunning
               /\ state'.startTime = now
               /\ state'.endTime = now + (state.timeLeft * MsPerSec)
               /\ state'.timeLeft = state.timeLeft
      ]_vars

\* C1 witness: a countdown paused after more than a second with time left
\* (the record of the pause is still in the store) has been started again.
C1_Witness ==
    /\ store # <<>>
    /\ ~store[1].isRunning
    /\ store[1].pausedAt # Null
    /\ store[1].startTime # Null
    /\ store[1].pausedAt - store[1].startTime >= MsPerSec
    /\ store[1].timeLeft > 0
    /\ store[1].timeLeft =
          ((store[1].endTime - store[1].startTime) \div MsPerSec)
            - ((store[1].pausedAt - store[1].startTime) \div MsPerSec)
    /\ state.isRunning
    /\ state.startTime > store[1].pausedAt
    /\ state.endTime = state.startTime + (store[1].timeLeft * MsPerSec)

\* the session transition of some suspended handleTimerComplete
CompletionActs == \E i \in 1..Len(tasks) : CompleteTransition(i)

\* the cycle as the specification tabulates it
KindAt ==
    <<"work", "shortBreak", "work", "shortBreak",
      "work", "shortBreak", "work", "longBreak">>

SuccessorOf == <<2, 3, 4, 5, 6, 7, 8, 1>>

DurationOf(kind) ==
    IF kind = "work" THEN 1500 ELSE IF kind = "shortBreak" THEN 300 ELSE 900

\* ceil(d / 1000) for d > 0, by its defining inequalities
CeilSeconds(d) ==
    CHOOSE r \in 1..((d \div MsPerSec) + 1) :
        (r - 1) * MsPerSec < d /\ d <= r * MsPerSec

\* max(0, ceil((endTime - ref) / 1000))
ExpectedRemaining(endTime, ref) ==
    IF endTime <= ref THEN 0 ELSE CeilSeconds(endTime - ref)

\* C2 - Completion transition.  The session transition of
\* handleTimerComplete, from a state at cycle position p, ends at position
\* (p mod 8) + 1 with the session kind of that position, timeLeft the
\* duration of that kind, not running, startTime, endTime and pausedAt null.
C2_CompletionTransition ==
    [][ CompletionActs
          => /\ state'.cyclePosition = (state.cyclePosition % 8) + 1
             /\ state'.sessionType = KindAt[state'.cyclePosition]
             /\ state'.timeLeft = DurationOf(state'.sessionType)
             /\ ~state'.isRunning
             /\ state'.startTime = Null
             /\ state'.endTime = Null
             /\ state'.pausedAt = Null
      ]_vars

\* C2 witness: 1500 s after the construction the first session has
\* completed: 300 s of short break at position 2, not running, persisted.
C2_Witness ==
    /\ now = T0 + (1500 * MsPerSec)
    /\ Quiescent
    /\ state.timeLeft = 300
    /\ state.sessionType = "shortBreak"
    /\ state.cyclePosition = 2
    /\ ~state.isRunning
    /\ state.endTime = Null
    /\ store = <<StateToSave(state)>>

\* the startup restore answers, with a running record whose deadline passed
RestoreLate(i) ==
    /\ Restore(i)
    /\ tasks[i].saved # <<>>
    /\ tasks[i].saved[1].isRunning
    /\ tasks[i].saved[1].endTime # Null
    /\ now >= tasks[i].saved[1].endTime

\* the startup restore answers, with a running record whose deadline is ahead
RestoreEarly(i) ==
    /\ Restore(i)
    /\ tasks[i].saved # <<>>
    /\ tasks[i].saved[1].isRunning
    /\ tasks[i].saved[1].endTime # Null
    /\ now < tasks[i].saved[1].endTime

\* C3 - Restore after a missed deadline.  restoreState of a running record
\* whose endTime is not after now runs the completion path at once, and that
\* completion leaves a stopped, fresh session at the persisted cycle position
\* advanced by one.
C3_RestoreAfterDeadline ==
    [][ \A i \in 1..Len(tasks) :
          /\ RestoreLate(i)
               => /\ Len(tasks') = Len(tasks)
                  /\ \E j \in 1..Len(tasks') :
                       /\ tasks'[j].kind = "init"
                       /\ tasks'[j].pc = "transition"
                       /\ tasks'[j].saved = tasks[i].saved
                  /\ state'.cyclePosition = tasks[i].saved[1].cyclePosition
          /\ (CompleteTransition(i) /\ tasks[i].kind = "init")
               => /\ state'.cyclePosition =
                       (tasks[i].saved[1].cyclePosition % 8) + 1
                  /\ state'.sessionType = KindAt[state'.cyclePosition]
                  /\ state'.timeLeft = DurationOf(state'.sessionType)
                  /\ ~state'.isRunning
                  /\ state'.endTime = Null
                  /\ store' = <<StateToSave(state')>>
      ]_vars

\* C3 witness: the restore found a deadline missed by more than a minute and
\* has entered the completion path.
C3_Witness ==
    \E i \in 1..Len(tasks) :
        /\ tasks[i].kind = "init"
        /\ tasks[i].pc = "transition"
        /\ tasks[i].saved[1].isRunning
        /\ now >= tasks[i].saved[1].endTime + (60 * MsPerSec)
        /\ state.cyclePosition = tasks[i].saved[1].cyclePosition

\* C4 - Restore before the deadline.  restoreState of a running record whose
\* endTime T is after now re-arms the alarm at T, keeps isRunning and endTime,
\* sets timeLeft = ceil((T - now) / 1000) and keeps sessionType and
\* cyclePosition.
C4_RestoreBeforeDeadline ==
    [][ \A i \in 1..Len(tasks) :
          RestoreEarly(i)
            => LET saved == tasks[i].saved[1] IN
               /\ alarm' = saved.endTime
               /\ state'.isRunning
               /\ state'.endTime = saved.endTime
               /\ state'.timeLeft = CeilSeconds(saved.endTime - now)
               /\ state'.sessionType = saved.sessionType
               /\ state'.cyclePosition = saved.cyclePosition
               /\ tasks' = Without(tasks, i)
      ]_vars

\* C4 witness: a running countdown restored part of a second into a second:
\* its timeLeft was recomputed, its alarm is at the persisted endTime.
C4_Witness ==
    /\ Quiescent
    /\ state.isRunning
    /\ store # <<>>
    /\ store[1].isRunning
    /\ alarm = store[1].endTime
    /\ state.endTime = store[1].endTime
    /\ state.timeLeft # store[1].timeLeft
    /\ (state.endTime - now) % MsPerSec # 0
    /\ state.endTime # now + (state.timeLeft * MsPerSec)

\* C5 - Cancellation.  Whenever no handler is in flight, a pending completion
\* alarm implies that the timer is running and that the alarm is scheduled
\* at endTime.
C5_Counterexample ==
    (Quiescent /\ alarm # Null) => (state.isRunning /\ alarm = state.endTime)

\* C6 - Completion only for a running, expired countdown.  Under every
\* interleaving, the session transition of the completion path is taken only
\* from a running state whose endTime is not after now.
C6_Counterexample ==
    [][ CompletionActs
          => /\ state.isRunning
             /\ state.endTime # Null
             /\ now >= state.endTime
      ]_vars

\* C7 - Handler atomicity.  No handler observes or overwrites state written
\* by another handler between its own steps: when startTimer, pauseTimer or
\* resetTimer resumes after an await, to create the alarm or to persist, the
\* state is the one that handler wrote (running for startTimer, stopped for
\* pauseTimer and resetTimer).
C7_Counterexample ==
    [][ \A i \in 1..Len(tasks) :
          (StartCreate(i) \/ Save(i))
            => /\ tasks[i].kind = "start" => state.isRunning
               /\ tasks[i].kind = "pause"
                    => (~state.isRunning /\ state.pausedAt # Null)
               /\ tasks[i].kind = "reset"
                    => (~state.isRunning /\ state.cyclePosition = 1)
      ]_vars

\* the reference instant of a remaining-time computation
ReferenceInstant(s, t) == IF s.pausedAt # Null THEN s.pausedAt ELSE t

\* the remaining-time computations of pauseTimer and restoreState
RemainingOfPauseAndRestore ==
    /\ PauseActs => state'.timeLeft = ExpectedRemaining(state.endTime, now)
    /\ \A i \in 1..Len(tasks) :
         /\ RestoreEarly(i)
              => /\ state'.timeLeft =
                      ExpectedRemaining(tasks[i].saved[1].endTime, now)
                 /\ state'.timeLeft >= 1
         /\ RestoreLate(i)
              => /\ ExpectedRemaining(tasks[i].saved[1].endTime, now) = 0
                 /\ \E j \in 1..Len(tasks') : tasks'[j].pc = "transition"

\* C8 - Remaining-time formula, as stated: every remaining-time computation
\* from an endTime (pause, restore, sync tick) returns
\* max(0, ceil((endTime - now) / 1000)).
C8_Counterexample ==
    [][ /\ RemainingOfPauseAndRestore
        /\ (lastSync' # <<>> /\ state.endTime # Null)
             => lastSync'[1].timeLeft = ExpectedRemaining(state.endTime, now)
      ]_vars

\* C8 - Remaining-time formula, amended: every remaining-time computation
\* from an endTime returns max(0, ceil((endTime - ref) / 1000)), where ref is
\* pausedAt when the state holds a pausedAt and now otherwise; the result is
\* at least 1 when endTime > ref and exactly 0 when endTime <= ref.
C8_RemainingFormula ==
    [][ /\ RemainingOfPauseAndRestore
        /\ (lastSync' # <<>> /\ state.endTime # Null)
             => LET ref == ReferenceInstant(state, now) IN
                /\ lastSync'[1].timeLeft = ExpectedRemaining(state.endTime, ref)
                /\ state.endTime > ref => lastSync'[1].timeLeft >= 1
                /\ state.endTime <= ref => lastSync'[1].timeLeft = 0
      ]_vars

\* C8 witness: a sync tick on a timer paused before its endTime, sent after
\* that endTime has passed, still carries the seconds left at the pause.
C8_Witness ==
    /\ lastSync # <<>>
    /\ ~state.isRunning
    /\ state.pausedAt # Null
    /\ state.endTime # Null
    /\ state.pausedAt < state.endTime
    /\ now >= state.endTime
    /\ lastSync[1].timeLeft >= 1
    /\ lastSync[1].timeLeft = state.timeLeft

\* C9 - Cycle law.  A completion moves position p to (p mod 8) + 1, so 8 is
\* followed by 1; the kinds of positions 1..8 are work, shortBreak, work,
\* shortBreak, work, shortBreak, work, longBreak; the durations are 1500,
\* 300 and 900 seconds; successive completions visit 2, 3, ..., 8, 1.
C9_CycleLaw ==
    /\ \A p \in 1..8 :
         /\ NextPosition(p) = SuccessorOf[p]
         /\ NextPosition(p) = (p % 8) + 1
         /\ getSessionTypeFromPosition(p) = KindAt[p]
         /\ getSessionDuration(KindAt[p]) = DurationOf(KindAt[p])
    /\ state.cyclePosition \in 1..8
    /\ state.sessionType = KindAt[state.cyclePosition]
    /\ \A i \in 1..Len(tasks) :
         ENABLED CompleteTransition(i)
           => LET after == CompletedState(state, now) IN
              /\ after.cyclePosition = SuccessorOf[state.cyclePosition]
              /\ after.sessionType = KindAt[after.cyclePosition]
              /\ after.timeLeft = DurationOf(after.sessionType)

\* C9 witness: the eighth position, reached by seven completions, is about
\* to be completed and wraps to the first.
C9_Witness ==
    /\ state.cyclePosition = 8
    /\ state.sessionType = "longBreak"
    /\ state.timeLeft = 900
    /\ store = <<StateToSave(state)>>
    /\ \E i \in 1..Len(tasks) : ENABLED CompleteTransition(i)
    /\ CompletedState(state, now).cyclePosition = 1

Delivered(type, arg) == lastEvent' = Event(type, arg) /\ lastEvent' # lastEvent

\* C11 - Sync snapshot.  The STATE_SYNC of a sync tick carries the state's
\* endTime, sessionType, cyclePosition and isRunning; its timeLeft is
\* max(0, ceil((endTime - now) / 1000)) while running and the state's
\* timeLeft while not running.
C11_Counterexample ==
    [][ lastSync' # <<>>
          => LET m == lastSync'[1] IN
             /\ m.endTime = state.endTime
             /\ m.sessionType = state.sessionType
             /\ m.cyclePosition = state.cyclePosition
             /\ m.isRunning = state.isRunning
             /\ state.isRunning
                  => m.timeLeft = ExpectedRemaining(state.endTime, now)
             /\ ~state.isRunning => m.timeLeft = state.timeLeft
      ]_vars

\* C12 - start.  START_TIMER on a stopped timer with timeLeft T at instant
\* now sets isRunning, startTime = now, endTime = now + T*1000 and
\* pausedAt = null and clears the alarm; startTimer then schedules the alarm
\* at endTime and persists that state.
C12_Start ==
    [][ /\ StartActs
          => /\ state' = [state EXCEPT !.isRunning = TRUE,
                                       !.startTime = now,
                                       !.endTime = now + (state.timeLeft * 1000),
                                       !.pausedAt = Null]
             /\ alarm' = Null
             /\ store' = store
        /\ \A i \in 1..Len(tasks) :
             /\ StartCreate(i)
                  => /\ state.isRunning
                     /\ state.endTime = state.startTime + (state.timeLeft * 1000)
                     /\ alarm' = state.endTime
             /\ (Save(i) /\ tasks[i].kind = "start")
                  => /\ store' # <<>>
                     /\ store'[1].isRunning
                     /\ store'[1].startTime = state.startTime
                     /\ store'[1].endTime = state.endTime
                     /\ store'[1].pausedAt = Null
                     /\ store'[1].timeLeft = state.timeLeft
                     /\ alarm' = store'[1].endTime
      ]_vars

\* C12 witness: START_TIMER on the default state has been handled to its
\* end: the alarm is at startTime + 1500000 and the running state persisted.
C12_Witness ==
    /\ Quiescent
    /\ state.isRunning
    /\ state.timeLeft = 1500
    /\ state.endTime = state.startTime + 1500000
    /\ state.pausedAt = Null
    /\ alarm = state.endTime
    /\ store = <<StateToSave(state)>>
    /\ lastEvent = <<>>

\* C13 - Guarded no-ops.  START_TIMER while running, PAUSE_TIMER while not
\* running and SET_TIME while running change no field of the state, start no
\* alarm call and write nothing to the store.
C13_GuardedNoOps ==
    [][ /\ (Delivered("START_TIMER", Null) /\ state.isRunning)
             => UNCHANGED <<state, alarm, store, tasks>>
        /\ (Delivered("PAUSE_TIMER", Null) /\ ~state.isRunning)
             => UNCHANGED <<state, alarm, store, tasks>>
        /\ \A seconds \in 0..(MaxPayload + 1) :
             (Delivered("SET_TIME", seconds) /\ state.isRunning)
               => UNCHANGED <<state, alarm, store, tasks>>
      ]_vars

\* C13 witness: SET_TIME with a positive payload was just delivered to a
\* running timer, whose alarm and persisted record are in place.
C13_Witness ==
    /\ lastEvent = Event("SET_TIME", 1)
    /\ Quiescent
    /\ state.isRunning
    /\ state.timeLeft # 1
    /\ alarm = state.endTime
    /\ store = <<StateToSave(state)>>

\* C14 - SET_TIME on a stopped timer.  For every payload seconds >= 0,
\* SET_TIME delivered while not running sets timeLeft to seconds, changes no
\* other field and persists a record with timeLeft = seconds.
C14_Counterexample ==
    [][ \A seconds \in 0..MaxPayload :
          (Delivered("SET_TIME", seconds) /\ ~state.isRunning)
            => /\ state' = [state EXCEPT !.timeLeft = seconds]
               /\ store' # <<>>
               /\ store'[1].timeLeft = seconds
      ]_vars

\* the state and the record the specification gives for a reset
FreshRecord ==
    [ timeLeft |-> 1500,
      isRunning |-> FALSE,
      startTime |-> Null,
      endTime |-> Null,
      pausedAt |-> Null,
      pausedDuration |-> 0,
      sessionType |-> "work",
      cyclePosition |-> 1 ]

\* C15 - reset.  RESET_TIMER from any state ends not running with
\* timeLeft = 1500, startTime, endTime and pausedAt null, pausedDuration 0,
\* sessionType work and cyclePosition 1, with the alarm cancelled and that
\* state persisted.
C15_Reset ==
    [][ /\ ResetTimer(MaxInFlight)
          => /\ state' = FreshRecord
             /\ alarm' = Null
        /\ \A i \in 1..Len(tasks) :
             (Save(i) /\ tasks[i].kind = "reset")
               => /\ store' = <<FreshRecord>>
                  /\ state' = FreshRecord
                  /\ alarm' = Null
      ]_vars

\* C15 witness: RESET_TIMER was delivered to a timer running its second
\* session; the state is the fresh one, the alarm is gone and the record of
\* the running timer is about to be replaced.
C15_Witness ==
    /\ lastEvent = Event("RESET_TIMER", Null)
    /\ tasks = <<Task("reset", "save", <<>>)>>
    /\ state = FreshRecord
    /\ alarm = Null
    /\ store # <<>>
    /\ store[1].isRunning
    /\ store[1].cyclePosition = 2
    /\ store[1].endTime # Null

\* C16 - SET_TIME_AND_RESET.  Once SET_TIME_AND_RESET{timeLeft: s} has been
\* handled, the persisted record has timeLeft = s, isRunning = false,
\* sessionType work and cyclePosition 1, whatever the state was.
C16_Counterexample ==
    \A s \in 1..MaxPayload :
        (Quiescent /\ lastEvent = Event("SET_TIME_AND_RESET", s))
          => /\ store # <<>>
             /\ store[1].timeLeft = s
             /\ ~store[1].isRunning
             /\ store[1].sessionType = "work"
             /\ store[1].cyclePosition = 1

\* C17 - Preset composite.  START_TIMER delivered right after
\* SET_TIME_AND_RESET{timeLeft: d}, from any prior state, leaves the service
\* running a work session at cycle position 1 with endTime = now + d*1000,
\* and startTimer schedules the alarm at that endTime.
C17_Counterexample ==
    [][ \A d \in 1..MaxPayload :
          /\ (lastEvent = Event("SET_TIME_AND_RESET", d)
                /\ Delivered("START_TIMER", Null))
               => /\ state'.isRunning
                  /\ state'.sessionType = "work"
                  /\ state'.cyclePosition = 1
                  /\ state'.startTime = now
                  /\ state'.endTime = now + (d * 1000)
          /\ \A i \in 1..Len(tasks) :
               StartCreate(i) => alarm' = state.startTime + (state.timeLeft * 1000)
      ]_vars

\* a command message is handed to handleCommand
CommandActs ==
    \/ StartTimer(MaxInFlight)
    \/ PauseTimer(MaxInFlight)
    \/ ResetTimer(MaxInFlight)
    \/ \E seconds \in 0..MaxPayload : SetTime(MaxInFlight, seconds)
    \/ GetState(MaxInFlight)
    \/ OtherCommand(MaxInFlight)

\* a completion has called the notifier and not yet made its transition
CompletionPending == \E i \in 1..Len(tasks) : tasks[i].pc = "transition"

\* C18 - Completion is atomic to observers.  The record a completion
\* persists is the whole transition, and between the notifier call and the
\* session transition of a completion no command handler runs and no sync
\* snapshot of the state in between is sent.
C18_Counterexample ==
    [][ /\ CompletionActs
          => /\ store' = <<StateToSave(state')>>
             /\ ~state'.isRunning
             /\ state'.endTime = Null
             /\ state'.timeLeft = DurationOf(KindAt[state'.cyclePosition])
        /\ CommandActs => ~CompletionPending
        /\ lastSync' # <<>> => ~CompletionPending
      ]_vars

\* C19 - Notifier failure is non-fatal.  When chrome.tabs.create fails
\* during a completion, the session transition still happens in full (cycle
\* advanced by one, timeLeft the duration of the new session, not running)
\* and is persisted.
C19_NotifierFailure ==
    [][ (CompletionActs /\ lastEvent' = Event("notification", 0))
          => /\ state'.cyclePosition = SuccessorOf[state.cyclePosition]
             /\ state'.sessionType = KindAt[state'.cyclePosition]
             /\ state'.timeLeft = DurationOf(state'.sessionType)
             /\ ~state'.isRunning
             /\ store' # <<>>
             /\ store'[1].cyclePosition = state'.cyclePosition
             /\ store'[1].sessionType = state'.sessionType
             /\ store'[1].timeLeft = state'.timeLeft
             /\ ~store'[1].isRunning
      ]_vars

\* C19 witness: the notification page could not be opened, and the first
\* session has given way to the persisted short break.
C19_Witness ==
    /\ lastEvent = Event("notification", 0)
    /\ Quiescent
    /\ state.cyclePosition = 2
    /\ state.sessionType = "shortBreak"
    /\ state.timeLeft = 300
    /\ ~state.isRunning
    /\ store = <<StateToSave(state)>>

\* C20 - GET_STATE is read-only.  GET_STATE rewrites the persisted record
\* from the current state, changing no field of the state and not the
\* alarm; and the record it writes is the projection of the state the
\* service holds once its startup restore has finished: while restoreState
\* is still reading a stopped record, that is the state restored from it.
C20_Counterexample ==
    [][ GetState(MaxInFlight)
          => /\ state' = state
             /\ alarm' = alarm
             /\ store' = <<StateToSave(state)>>
             /\ \A i \in 1..Len(tasks) :
                  ( /\ tasks[i].pc = "restore"
                    /\ tasks[i].saved # <<>>
                    /\ ~tasks[i].saved[1].isRunning )
                    => /\ store'[1].timeLeft = tasks[i].saved[1].timeLeft
                       /\ store'[1].sessionType = tasks[i].saved[1].sessionType
                       /\ store'[1].cyclePosition = tasks[i].saved[1].cyclePosition
                       /\ store'[1].pausedAt = tasks[i].saved[1].pausedAt
      ]_vars

\* C21 - The sync tick is side-effect free.  handleSyncAlarm sends its
\* snapshot in running and in stopped states, changes no field of the
\* state, writes nothing to the store and touches no alarm; when the
\* broadcast fails for want of a listener the failure is swallowed and the
\* state is unchanged.
C21_SyncSideEffectFree ==
    [][ lastSync' # <<>>
          => /\ state' = state
             /\ store' = store
             /\ alarm' = alarm
             /\ tasks' = tasks
             /\ lastEvent' \in { Event("pomodoroSync", 0), Event("pomodoroSync", 1) }
      ]_vars

\* C21 witness: a sync tick whose broadcast failed, on a countdown that has
\* run for a second and a half: the snapshot was computed, the state, the
\* record and the alarm are those of the running timer.
C21_Witness ==
    /\ lastEvent = Event("pomodoroSync", 0)
    /\ lastSync # <<>>
    /\ Quiescent
    /\ state.isRunning
    /\ lastSync[1].timeLeft < state.timeLeft
    /\ alarm = state.endTime
    /\ store = <<StateToSave(state)>>

\* the notifier is invoked: handleTimerComplete starts, from the alarm
\* callback or from restoreState
NotifierCalled ==
    \/ AlarmFire(MaxInFlight)
    \/ \E i \in 1..Len(tasks) : RestoreLate(i)

\* C30 - Exactly-once completion.  A countdown that reaches its deadline
\* causes one notifier invocation and one advance of the cycle position:
\* handleTimerComplete is not started again for a countdown that was
\* already notified, whether the alarm callback comes late, more than once,
\* or to a recreated service whose restoreState also found the deadline
\* missed.
C30_Counterexample ==
    [][ NotifierCalled => countdown # "notified" ]_vars

\* the record or message the step delivers to the viewer
Incoming == heard'[1].arg

\* C22 - Viewer drift correction.  When the viewer is told of a running
\* state with endTime E, its local endTime becomes E if it had none or
\* if E is more than 2000 ms away from it, and stays as it was otherwise
\* (local T+5000 and incoming T: T; then incoming T+1500: still T); after
\* the update the local endTime is within 2000 ms of E.
C22_DriftCorrection ==
    [][ (heard' # <<>> /\ Incoming.isRunning /\ Incoming.endTime # Null)
          => /\ display'.endTime =
                  IF \/ display.endTime = Null
                     \/ Incoming.endTime - display.endTime > 2000
                     \/ display.endTime - Incoming.endTime > 2000
                  THEN Incoming.endTime
                  ELSE display.endTime
             /\ display'.endTime - Incoming.endTime <= 2000
             /\ Incoming.endTime - display'.endTime <= 2000
      ]_vars

\* C22 witness: the viewer holds the deadline T it adopted and was last told
\* of a running state whose deadline is T + 1500: it kept T.
C22_Witness ==
    /\ viewer = "ready"
    /\ heard # <<>>
    /\ heard[1].arg.isRunning
    /\ display.endTime = T0 + (FiveMinutes * MsPerSec)
    /\ heard[1].arg.endTime = display.endTime + 1500

\* the seconds the viewer shows now when its displayState is d
Shown(d) == calculateDisplayTimeLeft(d, now)

\* the states one service transition away from s at instant t
Successors(s, t) ==
    IF s.isRunning
    THEN {PausedState(s, t), ResetState(s, t)}
    ELSE {StartedState(s, t), ResetState(s, t)}

\* C23 - Viewer order-independence.  When the viewer receives the changed
\* record of a state and the STATE_SYNC of the same state or of the state
\* one transition later, it shows the same remaining time whichever of the
\* two it handles first.
C23_Counterexample ==
    [][ \A s \in AuthStates :
          StorageChanged(s)
            => \A r \in {s} \cup Successors(s, now) :
                 Shown(handleSyncMessage(display', SyncMessage(r, now)))
                   = Shown(syncDisplayState(
                             handleSyncMessage(display, SyncMessage(r, now)),
                             StateToSave(s)))
      ]_vars

\* C24 - Viewer idempotence.  Applying a persisted record with
\* syncDisplayState twice in a row leaves the displayState (endTime,
\* isRunning, sessionType, cyclePosition, timeLeft, refresh loop active or
\* not) that applying it once left.
C24_Idempotence ==
    (heard # <<>> /\ heard[1].type = "storage.onChanged")
      => LET twice == syncDisplayState(display, heard[1].arg)
         IN /\ twice.endTime = display.endTime
            /\ twice.isRunning = display.isRunning
            /\ twice.sessionType = display.sessionType
            /\ twice.cyclePosition = display.cyclePosition
            /\ twice.timeLeft = display.timeLeft
            /\ (twice.displayIntervalId = Null) = (display.displayIntervalId = Null)

\* C24 witness: a running record was applied to a viewer whose deadline was
\* within the threshold of the record's but not equal to it; the viewer
\* kept its own, its loop runs, and applying the record again changes
\* nothing.
C24_Witness ==
    /\ viewer = "ready"
    /\ heard # <<>>
    /\ heard[1].type = "storage.onChanged"
    /\ heard[1].arg.isRunning
    /\ heard[1].arg.endTime # Null
    /\ display.endTime # heard[1].arg.endTime
    /\ display.displayIntervalId # Null
    /\ Abs(display.endTime - heard[1].arg.endTime) <= DriftThreshold

\* C25 - syncDisplayState(persisted) copies isRunning, sessionType,
\* cyclePosition and timeLeft from the incoming record as they are, clears
\* the local endTime whenever the record is not running, and leaves the
\* refresh loop active exactly when the record's isRunning is true.
C25_SyncCopies ==
    (heard # <<>> /\ heard[1].type = "storage.onChanged")
      => /\ display.isRunning = heard[1].arg.isRunning
         /\ display.sessionType = heard[1].arg.sessionType
         /\ display.cyclePosition = heard[1].arg.cyclePosition
         /\ display.timeLeft = heard[1].arg.timeLeft
         /\ ~heard[1].arg.isRunning => display.endTime = Null
         /\ (display.displayIntervalId # Null) <=> heard[1].arg.isRunning

\* C25 witness: the record of a paused timer, which still carries the
\* deadline of its countdown, was applied: the viewer holds the paused
\* seconds, no endTime and no loop.
C25_Witness ==
    /\ viewer = "ready"
    /\ heard # <<>>
    /\ heard[1].type = "storage.onChanged"
    /\ ~heard[1].arg.isRunning
    /\ heard[1].arg.endTime # Null
    /\ display.timeLeft = heard[1].arg.timeLeft
    /\ display.timeLeft < FiveMinutes
    /\ ~display.isRunning
    /\ display.endTime = Null
    /\ display.displayIntervalId = Null

\* the viewer writes the timer display: after a changed record or a
\* STATE_SYNC, at its initialization, at a tick of the refresh loop
Renders ==
    \/ heard' # <<>>
    \/ sent' # <<>> /\ sent'[1].type = "GET_STATE"
    \/ LoopTick

\* C26 - calculateDisplayTimeLeft.  The seconds the viewer displays are the
\* mirrored timeLeft when its displayState is not running, whatever the
\* time is; max(0, ceil((endTime - now) / 1000)) when it is running and
\* holds an endTime; and the mirrored timeLeft when it is running and holds
\* no endTime.
C26_DisplayTimeLeft ==
    [][ /\ Renders
          => rendered' =
               IF ~display'.isRunning THEN display'.timeLeft
               ELSE IF display'.endTime # Null
                    THEN ExpectedRemaining(display'.endTime, now)
                    ELSE display'.timeLeft
        /\ (now' # now /\ ~display.isRunning)
          => calculateDisplayTimeLeft(display, now')
               = calculateDisplayTimeLeft(display, now)
      ]_vars

\* C26 witness: a second and a half into a five-minute countdown the
\* refreshing viewer shows 4:59, with 298.5 s left.
C26_Witness ==
    /\ viewer = "ready"
    /\ display.isRunning
    /\ display.displayIntervalId # Null
    /\ display.endTime = T0 + (FiveMinutes * MsPerSec)
    /\ now = T0 + Quantum
    /\ rendered = FiveMinutes - 1

\* some message of a sequence of sent messages was not delivered
SomeUndelivered(msgs) == \E i \in 1..Len(msgs) : ~msgs[i].delivered

\* C27 - Viewer command delivery failure.  When a command the viewer sends
\* is not delivered because the service is unreachable, the viewer's
\* displayState and display are left exactly as they were (isRunning stays
\* false after a failed START_TIMER) and the viewer stays ready for later
\* events; when the GET_STATE of its initialization is not delivered, the
\* viewer is ready with the state it read from the store, or its defaults.
C27_SendFailure ==
    [][ SomeUndelivered(sent')
          => /\ viewer' = "ready"
             /\ sent'[1].type # "GET_STATE"
                  => /\ display' = display
                     /\ rendered' = rendered
             /\ (sent'[1].type = "GET_STATE" /\ store = <<>>)
                  => display' = DefaultDisplay
             /\ (sent'[1].type = "GET_STATE" /\ store # <<>>)
                  => /\ display'.isRunning = store[1].isRunning
                     /\ display'.timeLeft = store[1].timeLeft
                     /\ display'.cyclePosition = store[1].cyclePosition
      ]_vars

\* C27 witness: START_TIMER was sent from a stopped viewer and not
\* delivered; the viewer is still stopped and takes the next changed record.
C27_Witness ==
    /\ viewer = "ready"
    /\ sent = <<Sent("START_TIMER", Null, FALSE)>>
    /\ ~display.isRunning
    /\ display.displayIntervalId = Null
    /\ ENABLED (\E s \in RunningStates : StorageChanged(s))

\* C28 - Refresh-loop lifecycle.  A tick of the refresh loop changes no
\* field of the displayState and sends no message; stopping a loop that is
\* already stopped changes nothing; and after beforeunload the loop is
\* stopped (displayIntervalId null) whatever the displayState was.
C28_LoopLifecycle ==
    [][ /\ LoopTick
          => /\ display' = display
             /\ sent' = <<>>
        /\ Unload
          => /\ display'.displayIntervalId = Null
             /\ display.displayIntervalId = Null => display' = display
        /\ (heard' # <<>> /\ heard'[1].type = "storage.onChanged"
              /\ ~Incoming.isRunning /\ display.displayIntervalId = Null)
          => display'.displayIntervalId = Null
      ]_vars

\* C28 witness: the popup of a running countdown, whose loop had been
\* refreshing the display, was unloaded: no loop is left.
C28_Witness ==
    /\ viewer = "unloaded"
    /\ display.isRunning
    /\ display.endTime # Null
    /\ rendered = Remaining(display.endTime, now)
    /\ now > T0
    /\ display.displayIntervalId = Null

\* an operation of the interval-based viewer: initialization, start, pause,
\* preset, tick
PopupActs ==
    \/ PopupOpen
    \/ PopupStart
    \/ PopupPause
    \/ \E seconds \in PopupPresets : PopupSetTimeSeconds(seconds)
    \/ PopupInterval

\* C29 - Single writer.  Only the service writes the pomodoroState record:
\* no operation of a viewer (initialization, start, pause, preset, tick)
\* changes the record in the store, whose timeLeft and isRunning are
\* therefore never values a viewer computed.
C29_Counterexample ==
    [][ PopupActs => store' = store ]_vars

\* C31 - Commands racing with the startup restore.  A command or alarm
\* callback delivered while restoreState is reading the store is applied to
\* the restored state: when restoreState resumes with the record it read,
\* the state it replaces is still the constructor's defaults (no handler
\* has written to it) and the store still holds that record (it was not
\* overwritten from the defaults), so that state, record and alarm agree
\* once the startup has settled.
C31_Counterexample ==
    [][ \A i \in 1..Len(tasks) :
          (Restore(i) /\ tasks[i].saved # <<>>)
            => /\ state = DefaultState(now)
               /\ store = tasks[i].saved
      ]_vars

\* C32 - Eventual completion.  A timer that was started and neither paused
\* nor reset afterwards is eventually completed, however often the service
\* is destroyed and recreated in between.  What a finite run can refute:
\* while such a countdown has not been notified and no handler is in
\* flight, something is left that will complete it, the pending alarm or a
\* running record that a recreated service restores.
C32_Counterexample ==
    (countdown = "open" /\ Quiescent)
      => \/ alarm # Null
         \/ /\ store # <<>>
            /\ store[1].isRunning
            /\ store[1].endTime # Null

\* C33 - The persisted record is current.  With no handler in flight, the
\* record in the store agrees with the authoritative state on isRunning,
\* endTime, sessionType, cyclePosition, startTime and pausedAt, and on
\* timeLeft when the timer is not running.
RecordCurrent(saved, s) ==
    /\ saved.isRunning = s.isRunning
    /\ saved.endTime = s.endTime
    /\ saved.sessionType = s.sessionType
    /\ saved.cyclePosition = s.cyclePosition
    /\ saved.startTime = s.startTime
    /\ saved.pausedAt = s.pausedAt
    /\ (~s.isRunning => saved.timeLeft = s.timeLeft)

C33_Counterexample ==
    (Quiescent /\ store # <<>>) => RecordCurrent(store[1], state)

\* C34 - Persist/restore round trip.  restoreState in a fresh service, run
\* on the record persisted from a state that is not running, yields that
\* state's timeLeft, isRunning, sessionType and cyclePosition.
C34_Counterexample ==
    [][ \A i \in 1..Len(tasks) :
          (Restore(i) /\ tasks[i].saved # <<>> /\ ~tasks[i].saved[1].isRunning)
            => /\ state'.timeLeft = tasks[i].saved[1].timeLeft
               /\ state'.isRunning = tasks[i].saved[1].isRunning
               /\ state'.sessionType = tasks[i].saved[1].sessionType
               /\ state'.cyclePosition = tasks[i].saved[1].cyclePosition
      ]_vars

\* C35 - Cycle consistency.  In every state of the service and in every
\* record it persisted the cycle position is one of 1..8 and the session
\* type is the one of that position; and in the state right after a reset
\* or a completion timeLeft is the duration of the session type.
CycleConsistent(s) ==
    /\ s.cyclePosition \in 1..8
    /\ s.sessionType = getSessionTypeFromPosition(s.cyclePosition)

JustResetOrCompleted ==
    /\ lastEvent # <<>>
    /\ lastEvent[1].type \in {"RESET_TIMER", "notification"}

C35_CycleConsistency ==
    /\ CycleConsistent(state)
    /\ store # <<>> => CycleConsistent(store[1])
    /\ JustResetOrCompleted => state.timeLeft = getSessionDuration(state.sessionType)

\* a completion has just led into the long break, and its record is stored
C35_Witness ==
    /\ JustResetOrCompleted
    /\ lastEvent[1].type = "notification"
    /\ state.cyclePosition = 8
    /\ state.sessionType = "longBreak"
    /\ store # <<>>
    /\ store[1].cyclePosition = 8

\* C36 - Restore of a stopped timer.  restoreState with no persisted record,
\* or with a record whose isRunning is false, schedules no completion alarm
\* and does not run the completion path; with no record the service keeps
\* its defaults (1500 s, not running, work, position 1).
C36_RestoreStopped ==
    [][ \A i \in 1..Len(tasks) :
          (/\ Restore(i)
           /\ (tasks[i].saved = <<>> \/ ~tasks[i].saved[1].isRunning))
            => /\ alarm' = alarm
               /\ tasks' = Without(tasks, i)
               /\ countdown' = countdown
               /\ ~state'.isRunning
               /\ tasks[i].saved = <<>> => state' = DefaultState(now)
      ]_vars

\* a start was lost with the worker, and restoreState has brought back the
\* paused record, deadline included, without arming the alarm
C36_Witness ==
    /\ Quiescent
    /\ countdown = "open"
    /\ store # <<>>
    /\ ~store[1].isRunning
    /\ store[1].endTime # Null
    /\ store[1].pausedAt # Null
    /\ ~state.isRunning
    /\ state.endTime = store[1].endTime
    /\ alarm = Null

\* C37 - Non-negative time.  Whatever commands (with SET_TIME payloads that
\* are not negative), alarm callbacks, sync ticks and restores were handled,
\* the authoritative timeLeft, the persisted timeLeft and the timeLeft of
\* the last sync message are >= 0, and while running endTime >= startTime.
C37_NonNegativeTime ==
    /\ state.timeLeft >= 0
    /\ store # <<>> => store[1].timeLeft >= 0
    /\ lastSync # <<>> => lastSync[1].timeLeft >= 0
    /\ state.isRunning => state.endTime >= state.startTime

\* a sync tick after the deadline of a running timer, before its alarm
\* callback: the message carries 0
C37_Witness ==
    /\ lastSync # <<>>
    /\ lastSync[1].timeLeft = 0
    /\ state.isRunning
    /\ state.endTime # Null
    /\ now > state.endTime
    /\ state.timeLeft > 0

\* the refresh loop of the open viewer is active
LoopActive(d) == d.displayIntervalId # Null

\* C38 as stated - The loop follows the mirrored run flag: after any
\* sequence of persistence-change notifications and STATE_SYNC messages the
\* refresh loop of the open viewer is active iff displayState.isRunning.
C38_Counterexample ==
    viewer = "ready" => (LoopActive(display) <=> display.isRunning)

\* C38 - The loop follows the run flag of the persisted record.  Right after
\* a persistence-change notification the refresh loop is active iff the
\* mirrored isRunning is true; a STATE_SYNC message sets the mirrored
\* isRunning to the one it carries and leaves the loop as it was.
C38_LoopFollowsRecord ==
    [][ /\ (heard' # <<>> /\ heard'[1].type = "storage.onChanged")
          => /\ LoopActive(display') <=> display'.isRunning
             /\ display'.isRunning = Incoming.isRunning
        /\ (heard' # <<>> /\ heard'[1].type = "STATE_SYNC")
          => /\ LoopActive(display') <=> LoopActive(display)
             /\ display'.isRunning = Incoming.isRunning
      ]_vars

\* a STATE_SYNC of a running timer has reached a viewer that mirrored a
\* stopped one: the flag is set and no loop refreshes the display
C38_Witness ==
    /\ viewer = "ready"
    /\ heard # <<>>
    /\ heard[1].type = "STATE_SYNC"
    /\ heard[1].arg.isRunning
    /\ display.isRunning
    /\ ~LoopActive(display)

\* what is left of a saved countdown at instant t: whole elapsed seconds
\* taken off, not below zero
LeftOf(saved, t) ==
    Max(0, saved.timeLeft - ((t - saved.lastSaveTime) \div MsPerSec))

C40_Counterexample ==
    [][ \A i \in 1..Len(tasks) :
          /\ (LegacyMarkCompleted(i) /\ tasks[i].saved # <<>>)
               => /\ ~store'[1].isRunning
                  /\ store'[1].isCompleted
                  /\ store'[1].timeLeft = tasks[i].saved[1].timeLeft
                  /\ lastEvent' = <<>>
          /\ (LegacyMarkCompleted(i) /\ tasks[i].saved = <<>>)
               => /\ store' = store
                  /\ lastEvent' # <<>>
          /\ LegacyReset(i)
               => /\ store'[1].timeLeft = 25 * 60
                  /\ ~store'[1].isRunning
                  /\ ~store'[1].isCompleted
      ]_vars

====
